---- MODULE Spec2Model ----
(***************************************************************************)
(* A model of the SQL Server / Snowflake comparison tool:                  *)
(*   - src/src/execution/executor.py   QueryExecutor                       *)
(*   - src/src/database/connections.py connection wrappers                 *)
(*   - src/src/translation/translator.py QueryTranslator                   *)
(*   - src/src/analysis/comparator.py  PerformanceComparator               *)
(* Each component has its own specification (ExecSpec, TranslateSpec,      *)
(* CompareSpec); the variables of the other components stay at their       *)
(* initial values.                                                         *)
(***************************************************************************)
EXTENDS Integers, Sequences, FiniteSets, TLC

(***************************************************************************)
(* Bounds of the model.                                                    *)
(***************************************************************************)
\* the largest batch handed to execute_parallel
MaxJobs == 2
\* the largest parallel_workers the executor is constructed with
MaxWorkers == 2
\* the executor's timeout, in clock ticks
Timeout == 1

(***************************************************************************)
(* Python values.  None is the empty tuple and a present value x is <<x>>, *)
(* so that an optional integer or string compares with None.  A dict is a  *)
(* function from its keys.                                                 *)
(***************************************************************************)
None == <<>>
Some(x) == <<x>>

\* dict.get(key): the value, or None for a missing key
Get(d, key) == IF key \in DOMAIN d THEN d[key] ELSE None

\* str(e) of an exception: its message
Str(e) == e.msg

\* concurrent.futures.TimeoutError(), raised by Future.result with no message
\* (the fields of an exception are written in the order msg, type, cause, the
\* order in which TLC keeps them, so that no worker reorders a record that
\* another worker is reading)
TimeoutError == [msg |-> "", type |-> "TimeoutError"]

\* the exceptions a driver call can raise, by the call that raises
DriverError(call) == [msg |-> call \o " failed", type |-> "Error"]

\* The database is fixed while a batch runs: query i fetches i - 1 rows, and
\* when it fails it fails in the call named here.
FetchedRows(query_info) == [r \in 1..(query_info.query_id - 1) |-> <<"row", r>>]
FailingCall(query_info) ==
    CASE query_info.query_id = 1 -> "cursor"
      [] query_info.query_id = 2 -> "execute"
      [] OTHER -> "fetchall"

SQLServer == "SQL Server"
Snowflake == "Snowflake"
Platforms == {SQLServer, Snowflake}

(***************************************************************************)
(* connections.py                                                          *)
(***************************************************************************)
\* the message prefix of the DatabaseConnectionError each wrapper raises
ConnectFailedPrefix(platform) ==
    IF platform = SQLServer THEN "SQL Server connection failed: "
    ELSE "Snowflake connection failed: "

\* raise DatabaseConnectionError(f"... connection failed: {e}") from e
\* a variant raised without "from e"
DatabaseConnectionError_NoCause(platform, e) ==
    [msg |-> ConnectFailedPrefix(platform) \o Str(e),
     type |-> "DatabaseConnectionError",
     cause |-> None]

DatabaseConnectionError(platform, e) ==
    [msg |-> ConnectFailedPrefix(platform) \o Str(e),
     type |-> "DatabaseConnectionError",
     cause |-> e]

(***************************************************************************)
(* executor.py: the results of execute_sql_server / execute_snowflake      *)
(***************************************************************************)
\* the dict returned after fetchall
SuccessResult(execution_time_ms, row_count) ==
    [execution_time_ms |-> Some(execution_time_ms),
     row_count |-> Some(row_count),
     status |-> "success",
     error_message |-> None]

\* a variant that loses the message: "error_message": None
ErrorResult_NoMessage(e) ==
    [execution_time_ms |-> None,
     row_count |-> None,
     status |-> "error",
     error_message |-> None]

\* the dict returned by the except clause
ErrorResult(e) ==
    [execution_time_ms |-> None,
     row_count |-> None,
     status |-> "error",
     error_message |-> Some(Str(e))]

\* how a call of a worker function ends: it returns a value or raises
Returned(value) == [kind |-> "returned", value |-> value]
Raised(e) == [kind |-> "raised", exc |-> e]
Pending == [kind |-> "none"]

\* a variant without the except clause: the exception leaves the call
ExceptClause_Reraises(e) == Raised(e)

\* try: ... except Exception as e: return {... "status": "error" ...}
ExceptClause(e) == Returned(ErrorResult(e))

\* the platform a job is dispatched to: "SQL Server", else Snowflake
DispatchPlatform(query_info) ==
    IF query_info.platform = SQLServer THEN SQLServer ELSE Snowflake

\* result.update(query_info): the job's fields are written over the result's
Update(result, query_info) == query_info @@ result

\* a variant that forgets the job: {"status": "error", "error_message": str(e)}
ParallelErrorResult_DropsJob(query_info, e) ==
    [status |-> "error", error_message |-> Some(Str(e))]

\* {**query_info, "status": "error", "error_message": str(e)}
ParallelErrorResult(query_info, e) ==
    [status |-> "error", error_message |-> Some(Str(e))] @@ query_info


(***************************************************************************)
(* translator.py.  A text is a sequence of characters (one-character       *)
(* strings).                                                               *)
(***************************************************************************)
\* the largest number of fragments an input text is put together from
MaxTokens == 3

GETDATE == <<"G", "E", "T", "D", "A", "T", "E", "(", ")">>
GETUTCDATE == <<"G", "E", "T", "U", "T", "C", "D", "A", "T", "E", "(", ")">>
CURRENT_TIMESTAMP == <<"C", "U", "R", "R", "E", "N", "T", "_", "T", "I", "M", "E", "S", "T", "A", "M", "P", "(", ")">>
LEN == <<"L", "E", "N", "(">>
LENGTH == <<"L", "E", "N", "G", "T", "H", "(">>
ISNULL == <<"I", "S", "N", "U", "L", "L", "(">>
IFNULL == <<"I", "F", "N", "U", "L", "L", "(">>
LIMIT == <<"L", "I", "M", "I", "T", " ">>

\* a variant with a typo in the table: "ISNULL(": "ISNULL("
TranslationRules_IsnullTypo ==
    [date_functions |-> << <<GETDATE, CURRENT_TIMESTAMP>>,
                           <<GETUTCDATE, CURRENT_TIMESTAMP>> >>,
     string_functions |-> << <<LEN, LENGTH>> >>,
     null_functions |-> << <<ISNULL, ISNULL>> >>,
     top_clause |-> [pattern |-> "\\bTOP\\s+(\\d+)\\b",
                     replacement |-> "LIMIT \\1"]]

\* _initialize_translation_rules: each dict of literal rules in insertion
\* order, and the TOP rule's regular expression and replacement template
InitialTranslationRules ==
    [date_functions |-> << <<GETDATE, CURRENT_TIMESTAMP>>,
                           <<GETUTCDATE, CURRENT_TIMESTAMP>> >>,
     string_functions |-> << <<LEN, LENGTH>> >>,
     null_functions |-> << <<ISNULL, IFNULL>> >>,
     top_clause |-> [pattern |-> "\\bTOP\\s+(\\d+)\\b",
                     replacement |-> "LIMIT \\1"]]

\* the character classes of re, on the characters of the model
Digits == {"0", "1", "5"}
Letters == {"A", "C", "D", "E", "F", "G", "H", "I", "L", "M", "N", "O", "P",
            "R", "S", "T", "U", "o", "p", "t", "x"}
WordChars == Letters \cup Digits \cup {"_"}
Whitespace == {" ", "\t"}

\* a variant that forgets flags=re.IGNORECASE
Upper_CaseSensitive(c) == c

\* re.IGNORECASE: a character of the text folded to the pattern's case
Upper(c) ==
    CASE c = "t" -> "T"
      [] c = "o" -> "O"
      [] c = "p" -> "P"
      [] OTHER -> c

\* text[i:].startswith(t), i counted from 1
StartsWithAt(text, i, t) ==
    /\ i + Len(t) - 1 <= Len(text)
    /\ SubSeq(text, i, i + Len(t) - 1) = t

\* t in text
Contains(text, t) == \E i \in 1..Len(text) : StartsWithAt(text, i, t)

\* text[i - 1:]: the text from its i-th character on
From(text, i) == SubSeq(text, i, Len(text))

\* a variant that replaces the first occurrence only: replace(old, new, 1)
RECURSIVE Replace_FirstOnly(_, _, _)
Replace_FirstOnly(text, old, new) ==
    IF Len(text) < Len(old) THEN text
    ELSE IF StartsWithAt(text, 1, old)
         THEN new \o From(text, Len(old) + 1)
         ELSE <<Head(text)>> \o Replace_FirstOnly(Tail(text), old, new)

\* str.replace(old, new): every non-overlapping occurrence, left to right
RECURSIVE Replace(_, _, _)
Replace(text, old, new) ==
    IF Len(text) < Len(old) THEN text
    ELSE IF StartsWithAt(text, 1, old)
         THEN new \o Replace(From(text, Len(old) + 1), old, new)
         ELSE <<Head(text)>> \o Replace(Tail(text), old, new)

\* for old_func, new_func in rules.items(): translated = translated.replace(...)
RECURSIVE ApplyLiteralRules(_, _)
ApplyLiteralRules(text, rules) ==
    IF rules = <<>> THEN text
    ELSE ApplyLiteralRules(Replace(text, Head(rules)[1], Head(rules)[2]),
                           Tail(rules))

\* \b at position i: exactly one of the characters before and at i is a
\* word character (the ends of the text count as non-word)
IsWordAt(text, i) == i >= 1 /\ i <= Len(text) /\ text[i] \in WordChars
WordBoundary(text, i) == IsWordAt(text, i - 1) # IsWordAt(text, i)

\* the end of the longest run of characters of class cls starting at i
\* (i itself when text[i] is not in cls)
RECURSIVE RunEnd(_, _, _)
RunEnd(text, i, cls) ==
    IF i <= Len(text) /\ text[i] \in cls THEN RunEnd(text, i + 1, cls) ELSE i

\* the keyword of the pattern at i, in any letter case
TopAt(text, i) ==
    /\ i + 2 <= Len(text)
    /\ <<Upper(text[i]), Upper(text[i + 1]), Upper(text[i + 2])>> = <<"T", "O", "P">>

\* \bTOP\s+(\d+)\b matched at i: [digits |-> start of group 1, end |-> the
\* position after the match], or None.  \s+ and \d+ are greedy, and no
\* shorter run can match: a shorter \s+ is followed by whitespace, not a
\* digit, and a shorter \d+ is followed by a digit, not a boundary.
MatchTopAt(text, i) ==
    LET d == RunEnd(text, i + 3, Whitespace)
        e == RunEnd(text, d, Digits)
    IN IF /\ WordBoundary(text, i)
          /\ TopAt(text, i)
          /\ d > i + 3
          /\ e > d
          /\ WordBoundary(text, e)
       THEN Some([digits |-> d, end |-> e])
       ELSE None

\* the template LIMIT \1 expanded for a match
ExpandLimit(text, m) == LIMIT \o SubSeq(text, m.digits, m.end - 1)

\* re.sub(pattern, replacement, text, flags=re.IGNORECASE) from position i:
\* the leftmost match is replaced and the scan goes on after it
RECURSIVE SubTopFrom(_, _)
SubTopFrom(text, i) ==
    IF i > Len(text) THEN <<>>
    ELSE LET m == MatchTopAt(text, i) IN
         IF m # None
         THEN ExpandLimit(text, m[1]) \o SubTopFrom(text, m[1].end)
         ELSE <<text[i]>> \o SubTopFrom(text, i + 1)

SubTop(text) == SubTopFrom(text, 1)

\* a variant of translate without the loop over string_functions
Translate_SkipsStrings(rules, text) ==
    LET dates == ApplyLiteralRules(text, rules.date_functions)
        nulls == ApplyLiteralRules(dates, rules.null_functions)
    IN SubTop(nulls)

\* QueryTranslator.translate
Translate(rules, text) ==
    LET dates == ApplyLiteralRules(text, rules.date_functions)
        strings == ApplyLiteralRules(dates, rules.string_functions)
        nulls == ApplyLiteralRules(strings, rules.null_functions)
    IN SubTop(nulls)

\* the fragments the input texts are put together from
Tokens ==
    {GETDATE, GETUTCDATE, LEN, ISNULL,
     <<"T", "O", "P">>, <<"t", "O", "p", " ">>, <<"T", "O", "P", " ">>,
     <<" ">>, <<"\t">>, <<"5">>, <<"1", "0">>, <<"x">>, <<"'">>, <<"_">>,
     <<"G", "E", "T">>, <<"D", "A", "T", "E", "(", ")">>}

(***************************************************************************)
(* Python floats (IEEE 754 binary64, round to nearest, ties to even).      *)
(* A natural number is the sequence of its digits in base LimbBase, least  *)
(* significant first and without leading zero digits; a float is           *)
(* sign * man * 2^exp with a man of exactly MantissaBits bits, or zero.    *)
(* The arithmetic is written as functions, which take their arguments by   *)
(* value.                                                                  *)
(***************************************************************************)
MantissaBits == 53
LimbBits == 15
LimbBase == 32768

Big == Seq(Nat)
Float == [sign : {-1, 0, 1}, man : Big, exp : Int]

Pow2[k \in Nat] == IF k = 0 THEN 1 ELSE 2 * Pow2[k - 1]

BigOfInt[n \in Nat] ==
    IF n = 0 THEN <<>> ELSE <<n % LimbBase>> \o BigOfInt[n \div LimbBase]

BigValue[a \in Big] ==
    IF a = <<>> THEN 0 ELSE Head(a) + LimbBase * BigValue[Tail(a)]

BigNormal[a \in Big] ==
    IF a # <<>> /\ a[Len(a)] = 0 THEN BigNormal[SubSeq(a, 1, Len(a) - 1)]
    ELSE a

IntBitLen[n \in Nat] == IF n = 0 THEN 0 ELSE 1 + IntBitLen[n \div 2]

BigBitLen[a \in Big] ==
    IF a = <<>> THEN 0 ELSE LimbBits * (Len(a) - 1) + IntBitLen[a[Len(a)]]

BigOdd[a \in Big] == a # <<>> /\ a[1] % 2 = 1

BigGeqFrom[a \in Big, b \in Big, i \in Nat] ==
    IF i = 0 THEN TRUE
    ELSE IF a[i] # b[i] THEN a[i] > b[i]
    ELSE BigGeqFrom[a, b, i - 1]

\* a >= b
BigGeq[a \in Big, b \in Big] ==
    IF Len(a) # Len(b) THEN Len(a) > Len(b) ELSE BigGeqFrom[a, b, Len(a)]

BigAddCarry[a \in Big, b \in Big, carry \in Nat] ==
    IF a = <<>> /\ b = <<>> THEN (IF carry = 0 THEN <<>> ELSE <<carry>>)
    ELSE LET t == (IF a = <<>> THEN 0 ELSE Head(a))
                  + (IF b = <<>> THEN 0 ELSE Head(b)) + carry
         IN <<t % LimbBase>>
            \o BigAddCarry[IF a = <<>> THEN <<>> ELSE Tail(a),
                           IF b = <<>> THEN <<>> ELSE Tail(b), t \div LimbBase]

BigAdd[a \in Big, b \in Big] == BigAddCarry[a, b, 0]

BigSubBorrow[a \in Big, b \in Big, borrow \in Nat] ==
    IF a = <<>> THEN <<>>
    ELSE LET t == Head(a) - (IF b = <<>> THEN 0 ELSE Head(b)) - borrow
         IN <<IF t < 0 THEN t + LimbBase ELSE t>>
            \o BigSubBorrow[Tail(a), IF b = <<>> THEN <<>> ELSE Tail(b),
                            IF t < 0 THEN 1 ELSE 0]

\* a - b, for a >= b
BigSub[a \in Big, b \in Big] == BigNormal[BigSubBorrow[a, b, 0]]

BigTimesCarry[a \in Big, k \in Nat, carry \in Nat] ==
    IF a = <<>> THEN (IF carry = 0 THEN <<>> ELSE <<carry>>)
    ELSE LET t == Head(a) * k + carry
         IN <<t % LimbBase>> \o BigTimesCarry[Tail(a), k, t \div LimbBase]

\* a * k, for 0 <= k < LimbBase
BigTimes[a \in Big, k \in Nat] ==
    IF k = 0 THEN <<>> ELSE BigTimesCarry[a, k, 0]

\* the digits 1..i of a divided by k, with the remainder rem carried in:
\* the quotient, then the remainder as the last element
BigDivFrom[a \in Big, k \in Nat, i \in Nat, rem \in Nat] ==
    IF i = 0 THEN <<rem>>
    ELSE LET t == rem * LimbBase + a[i]
         IN Append(BigDivFrom[a, k, i - 1, t % k], t \div k)

BigDivParts[d \in Big] ==
    [quot |-> BigNormal[Tail(d)], rem |-> Head(d)]

\* a divided by k, for 0 < k <= LimbBase: the quotient and the remainder
BigDivSmall[a \in Big, k \in Nat] == BigDivParts[BigDivFrom[a, k, Len(a), 0]]

BigZeros[k \in Int] == IF k <= 0 THEN <<>> ELSE <<0>> \o BigZeros[k - 1]

\* a * 2^s
BigShiftLeft[a \in Big, s \in Nat] ==
    IF a = <<>> THEN <<>>
    ELSE BigZeros[s \div LimbBits] \o BigTimes[a, Pow2[s % LimbBits]]

\* a quotient with its remainder; a shifted number with what it lost
Divided == [quot : Big, rem : Nat]
Shifted == [quot : Big, inexact : BOOLEAN]

BigShiftParts[d \in Divided, dropped \in Big] ==
    [quot |-> d.quot,
     inexact |-> d.rem # 0 \/ \E i \in 1..Len(dropped) : dropped[i] # 0]

\* a divided by 2^s: the quotient, and whether a remainder is left
BigShiftRight[a \in Big, s \in Nat] ==
    IF s \div LimbBits >= Len(a)
    THEN [quot |-> <<>>, inexact |-> a # <<>>]
    ELSE BigShiftParts[
             BigDivSmall[SubSeq(a, s \div LimbBits + 1, Len(a)),
                         Pow2[s % LimbBits]],
             SubSeq(a, 1, s \div LimbBits)]

FloatZero == [sign |-> 0, man |-> <<>>, exp |-> 0]

\* a float of a mantissa that rounding may have carried to one bit more
FloatOfCarried[sign \in Int, man \in Big, exp \in Int] ==
    IF BigBitLen[man] > MantissaBits
    THEN [sign |-> sign, man |-> BigDivSmall[man, 2].quot, exp |-> exp + 1]
    ELSE [sign |-> sign, man |-> man, exp |-> exp]

\* sign * keep * 2^exp rounded on what is below keep: a half, and more
RoundKept[sign \in Int, keep \in Big, exp \in Int, half \in BOOLEAN, more \in BOOLEAN] ==
    IF half /\ (more \/ BigOdd[keep])
    THEN FloatOfCarried[sign, BigAdd[keep, <<1>>], exp]
    ELSE [sign |-> sign, man |-> keep, exp |-> exp]

RoundShifted[sign \in Int, t \in Shifted, exp \in Int, sticky \in BOOLEAN] ==
    RoundKept[sign, BigDivSmall[t.quot, 2].quot, exp, BigOdd[t.quot],
              t.inexact \/ sticky]

RoundLen[sign \in Int, n \in Big, exp \in Int, sticky \in BOOLEAN, len \in Nat] ==
    IF len = 0 THEN FloatZero
    ELSE IF len <= MantissaBits
    THEN [sign |-> sign, man |-> BigShiftLeft[n, MantissaBits - len],
          exp |-> exp - (MantissaBits - len)]
    ELSE RoundShifted[sign, BigShiftRight[n, len - MantissaBits - 1],
                      exp + len - MantissaBits, sticky]

\* the float nearest to sign * n * 2^exp (n a little larger when sticky)
RoundBig[sign \in Int, n \in Big, exp \in Int, sticky \in BOOLEAN] ==
    RoundLen[sign, n, exp, sticky, BigBitLen[n]]

\* float(n) of an integer
FloatOfInt[n \in Int] ==
    RoundBig[IF n < 0 THEN -1 ELSE 1, BigOfInt[IF n < 0 THEN 0 - n ELSE n],
             0, FALSE]

\* the largest digit d in lo..hi with d * y <= r
QuotientDigit[r \in Big, y \in Big, lo \in Nat, hi \in Nat] ==
    IF lo >= hi THEN hi
    ELSE IF BigGeq[r, BigTimes[y, (lo + hi + 1) \div 2]]
    THEN QuotientDigit[r, y, (lo + hi + 1) \div 2, hi]
    ELSE QuotientDigit[r, y, lo, (lo + hi + 1) \div 2 - 1]

\* the bits of a divisor that an estimate of a quotient digit looks at
EstimateBits == 15

DigitNear[r \in Big, y \in Big, est \in Nat] ==
    QuotientDigit[r, y, IF est < 3 THEN 0 ELSE est - 3,
                  IF est + 1 > LimbBase - 1 THEN LimbBase - 1 ELSE est + 1]

\* the digit r / y, for r < y * LimbBase and y of MantissaBits bits: the
\* leading bits of r and y give an estimate est with est - 3 <= r / y <= est + 1
NextDigit[r \in Big, y \in Big] ==
    DigitNear[r, y,
              BigValue[BigShiftRight[r, MantissaBits - EstimateBits].quot]
              \div BigValue[BigShiftRight[y, MantissaBits - EstimateBits].quot]]

\* r * LimbBase
BigShiftLimb[r \in Big] == IF r = <<>> THEN <<>> ELSE <<0>> \o r

DivisionState == [rem : Big, quot : Big]

\* the state of a long division after the digit d of r
DigitStep[r \in Big, y \in Big, q \in Big, d \in Nat] ==
    [rem |-> BigSub[r, BigTimes[y, d]], quot |-> <<d>> \o q]

\* one more digit of the quotient by y, for st.rem < y
DivideOnce[st \in DivisionState, y \in Big] ==
    DigitStep[BigShiftLimb[st.rem], y, st.quot,
              NextDigit[BigShiftLimb[st.rem], y]]

\* k more digits of the quotient by y
LongDivision[st \in DivisionState, y \in Big, k \in Nat] ==
    IF k = 0 THEN st ELSE LongDivision[DivideOnce[st, y], y, k - 1]

\* the digits of quotient that a division works out
QuotientLimbs == 4

FloatOfQuotient[sign \in Int, st \in DivisionState, exp \in Int] ==
    RoundBig[sign, BigNormal[st.quot], exp, st.rem # <<>>]

\* x / y, for y # 0
FloatDiv[x \in Float, y \in Float] ==
    IF x.sign = 0 THEN FloatZero
    ELSE FloatOfQuotient[
             x.sign * y.sign,
             LongDivision[IF BigGeq[x.man, y.man]
                          THEN [rem |-> BigSub[x.man, y.man], quot |-> <<1>>]
                          ELSE [rem |-> x.man, quot |-> <<>>],
                          y.man, QuotientLimbs],
             x.exp - y.exp - QuotientLimbs * LimbBits]

\* sign * (a - b) * 2^exp
FloatOfDifference[sign \in Int, a \in Big, b \in Big, exp \in Int] ==
    IF BigGeq[a, b] THEN RoundBig[sign, BigSub[a, b], exp, FALSE]
    ELSE RoundBig[0 - sign, BigSub[b, a], exp, FALSE]

\* x - y, for x and y of one sign or zero
FloatSub[x \in Float, y \in Float] ==
    IF y.sign = 0 THEN x
    ELSE IF x.sign = 0 THEN [y EXCEPT !.sign = 0 - y.sign]
    ELSE IF x.exp < y.exp
    THEN FloatOfDifference[x.sign, x.man, BigShiftLeft[y.man, y.exp - x.exp],
                           x.exp]
    ELSE FloatOfDifference[x.sign, BigShiftLeft[x.man, x.exp - y.exp], y.man,
                           y.exp]

\* x * k, for an integer 0 < k < LimbBase
FloatTimes[x \in Float, k \in Nat] ==
    IF x.sign = 0 THEN FloatZero
    ELSE RoundBig[x.sign, BigTimes[x.man, k], x.exp, FALSE]

\* abs(x) < 1.0
FloatAbsBelowOne[x \in Float] == x.sign = 0 \/ x.exp + MantissaBits <= 0

\* int(x): truncation toward zero
FloatInt[x \in Float] ==
    IF x.sign = 0 \/ x.exp + MantissaBits <= 0 THEN 0
    ELSE IF x.exp >= 0 THEN x.sign * BigValue[BigShiftLeft[x.man, x.exp]]
    ELSE x.sign * BigValue[BigShiftRight[x.man, 0 - x.exp].quot]

\* keep, and one more when what is below it (a half, and more) rounds up
RoundedValue[keep \in Big, half \in BOOLEAN, more \in BOOLEAN] ==
    BigValue[keep] + (IF half /\ (more \/ BigOdd[keep]) THEN 1 ELSE 0)

HundredthsOfShifted[sign \in Int, t \in Shifted] ==
    [hundredths |->
        sign * RoundedValue[BigDivSmall[t.quot, 2].quot, BigOdd[t.quot], t.inexact]]

\* round(x, 2), as the number of hundredths: the exact value of x times 100,
\* rounded to the nearest integer, a tie to the even one
FloatRound2[x \in Float] ==
    IF x.sign = 0 THEN [hundredths |-> 0]
    ELSE IF x.exp >= 0
    THEN [hundredths |->
             x.sign * BigValue[BigShiftLeft[BigTimes[x.man, 100], x.exp]]]
    ELSE HundredthsOfShifted[
             x.sign, BigShiftRight[BigTimes[x.man, 100], 0 - x.exp - 1]]

(***************************************************************************)
(* comparator.py.                                                          *)
(***************************************************************************)
\* the largest batch handed to compare_results
MaxBatch == 2

\* bool(x) of an optional integer: None and 0 are false
TruthyInt(v) == v # None /\ v[1] # 0
\* bool(x) of an optional float
TruthyFloat(v) == v # None /\ v[1].sign # 0

\* r.get("status") == "success" and r.get("execution_time_ms")
KeepsTiming(r) ==
    /\ "status" \in DOMAIN r
    /\ r.status = "success"
    /\ TruthyInt(Get(r, "execution_time_ms"))

\* [r["execution_time_ms"] for r in batch if ...]
RECURSIVE SuccessTimes(_)
SuccessTimes(batch) ==
    IF batch = <<>> THEN <<>>
    ELSE (IF KeepsTiming(Head(batch))
          THEN <<Head(batch).execution_time_ms[1]>> ELSE <<>>)
         \o SuccessTimes(Tail(batch))

RECURSIVE Sum(_)
Sum(times) == IF times = <<>> THEN 0 ELSE Head(times) + Sum(Tail(times))

\* a variant that rounds the mean: round(sum(times) / len(times))
Average_Rounded(times) ==
    IF times # <<>>
    THEN Some(FloatOfInt[(2 * Sum(times) + Len(times)) \div (2 * Len(times))])
    ELSE None

\* sum(times) / len(times) if times else None
Average(times) ==
    IF times # <<>>
    THEN Some(FloatDiv[FloatOfInt[Sum(times)], FloatOfInt[Len(times)]])
    ELSE None

\* a variant of the guard with `and` for `or`
InputsMissing_And(sqlserver, snowflake) == sqlserver = <<>> /\ snowflake = <<>>

\* a variant that also refuses a batch holding a record without a row count
InputsMissing_OrIncomplete(sqlserver, snowflake) ==
    \/ sqlserver = <<>>
    \/ snowflake = <<>>
    \/ \E k \in 1..Len(sqlserver) : "row_count" \notin DOMAIN sqlserver[k]
    \/ \E k \in 1..Len(snowflake) : "row_count" \notin DOMAIN snowflake[k]

\* not sqlserver_results or not snowflake_results
InputsMissing(sqlserver, snowflake) == sqlserver = <<>> \/ snowflake = <<>>

\* a variant that reads the last record: batch[-1]
FirstRowCount_Last(batch) ==
    IF batch # <<>> THEN Get(batch[Len(batch)], "row_count") ELSE None

\* batch[0].get("row_count") if batch else None
FirstRowCount(batch) ==
    IF batch # <<>> THEN Get(batch[1], "row_count") ELSE None

\* the winner, for the percent difference and the difference
Winner(percent, difference) ==
    IF FloatAbsBelowOne[percent] THEN "Tie"
    ELSE IF difference.sign < 0 THEN "Snowflake"
    ELSE "SQL Server"

\* PerformanceComparator.compare_results: what the call does, with the
\* locals sqlserver_avg and snowflake_avg
CompareResults(sqlserver, snowflake) ==
    IF InputsMissing(sqlserver, snowflake)
    THEN [raised |-> Some("ValidationError"), report |-> None,
          sqlserver_avg |-> None, snowflake_avg |-> None]
    ELSE
    LET sqlserver_avg == Average(SuccessTimes(sqlserver))
        snowflake_avg == Average(SuccessTimes(snowflake))
        both == TruthyFloat(sqlserver_avg) /\ TruthyFloat(snowflake_avg)
        time_difference_ms ==
            IF both THEN Some(FloatSub[snowflake_avg[1], sqlserver_avg[1]])
            ELSE None
        time_difference_percent ==
            IF both
            THEN Some(FloatTimes[FloatDiv[time_difference_ms[1], sqlserver_avg[1]],
                                 100])
            ELSE None
        performance_winner ==
            IF both THEN Some(Winner(time_difference_percent[1],
                                     time_difference_ms[1]))
            ELSE None
        sqlserver_row_count == FirstRowCount(sqlserver)
        snowflake_row_count == FirstRowCount(snowflake)
    IN [raised |-> None,
        sqlserver_avg |-> sqlserver_avg,
        snowflake_avg |-> snowflake_avg,
        report |-> Some(
          [sqlserver_avg_time_ms |->
               IF TruthyFloat(sqlserver_avg) THEN Some(FloatInt[sqlserver_avg[1]])
               ELSE None,
           snowflake_avg_time_ms |->
               IF TruthyFloat(snowflake_avg) THEN Some(FloatInt[snowflake_avg[1]])
               ELSE None,
           time_difference_ms |->
               IF TruthyFloat(time_difference_ms)
               THEN Some(FloatInt[time_difference_ms[1]]) ELSE None,
           time_difference_percent |->
               IF TruthyFloat(time_difference_percent)
               THEN Some(FloatRound2[time_difference_percent[1]]) ELSE None,
           row_count_match |-> sqlserver_row_count = snowflake_row_count,
           sqlserver_row_count |-> sqlserver_row_count,
           snowflake_row_count |-> snowflake_row_count,
           performance_winner |-> performance_winner])]

\* the result records the batches are made of: results of execute_* with
\* timings of 0, 100 and 102 ms, a success without a timing, the two kinds
\* of error result of execute_parallel, and an error that carries a timing
Timings == {0, 100, 102}
ComparatorRecords ==
    {[execution_time_ms |-> Some(t), row_count |-> Some(10), status |-> "success"] :
        t \in Timings}
    \cup {[execution_time_ms |-> None, row_count |-> Some(11), status |-> "success"],
          ErrorResult(DriverError("execute")),
          [status |-> "error", error_message |-> Some(Str(TimeoutError))],
          [execution_time_ms |-> Some(100), row_count |-> Some(10), status |-> "error"]}

\* min(times), max(times)
RECURSIVE Min(_)
Min(times) ==
    IF Len(times) = 1 THEN times[1]
    ELSE LET rest == Min(Tail(times))
         IN IF Head(times) <= rest THEN Head(times) ELSE rest

RECURSIVE Max(_)
Max(times) ==
    IF Len(times) = 1 THEN times[1]
    ELSE LET rest == Max(Tail(times))
         IN IF Head(times) >= rest THEN Head(times) ELSE rest

\* sorted(times)
RECURSIVE Insert(_, _)
Insert(t, sorted) ==
    IF sorted = <<>> \/ t <= Head(sorted) THEN <<t>> \o sorted
    ELSE <<Head(sorted)>> \o Insert(t, Tail(sorted))

\* a variant that forgets to sort
Sorted_AsGiven(times) == times

RECURSIVE Sorted(_)
Sorted(times) ==
    IF times = <<>> THEN <<>> ELSE Insert(Head(times), Sorted(Tail(times)))

\* {}: the dict without keys
EmptyDict == [key \in {} |-> None]

\* PerformanceComparator.calculate_statistics
CalculateStatistics(batch) ==
    LET times == SuccessTimes(batch)
        n == Len(times)
    IN IF times = <<>> THEN EmptyDict
       ELSE [min |-> Min(times),
             max |-> Max(times),
             mean |-> FloatDiv[FloatOfInt[Sum(times)], FloatOfInt[n]],
             median |-> Sorted(times)[n \div 2 + 1],
             count |-> n]

\* the runs of one query: the most timings of a batch, and the timings
MaxRuns == 3
RunTimings == {33, 34}

\* the result of a run that succeeded after t ms
RunRecord(t) ==
    [execution_time_ms |-> Some(t), row_count |-> Some(10), status |-> "success"]

(***************************************************************************)
(* The connection wrappers: SQLServerConnection and SnowflakeConnection.   *)
(***************************************************************************)
\* the most handles the driver opens for one wrapper
MaxHandles == 2

\* a str is truthy unless it is None or empty
TruthyStr(v) == v # None /\ v[1] # ""

\* what the caller may pass for username and for password
Credentials == {None, Some(""), Some("user")}

\* what the caller may pass for role (SnowflakeConnection only)
Roles == {None, Some("analyst")}

\* **kwargs of the constructors: none, or one that names no credential
KeywordParams == {EmptyDict, [key \in {"authenticator"} |-> "externalbrowser"]}

\* SQLServerConnection.__init__
SQLServerWrapper(username, password, kwargs) ==
    [platform |-> SQLServer,
     server |-> "host",
     database |-> "db",
     username |-> username,
     password |-> password,
     port |-> "1433",
     driver |-> "ODBC Driver 17 for SQL Server",
     connection_params |-> kwargs,
     connection |-> None]

\* SnowflakeConnection.__init__
SnowflakeWrapper(username, password, role, kwargs) ==
    [platform |-> Snowflake,
     account |-> "acct",
     warehouse |-> "wh",
     database |-> "db",
     schema |-> "PUBLIC",
     username |-> username,
     password |-> password,
     role |-> role,
     connection_params |-> kwargs,
     connection |-> None]

Wrappers ==
    {SQLServerWrapper(u, p, EmptyDict) : u \in Credentials, p \in Credentials}
    \cup {SnowflakeWrapper(u, p, r, k) :
              u \in Credentials, p \in Credentials, r \in Roles,
              k \in KeywordParams}

\* one "KEY=value" part of an ODBC connection string
Part(key, value) == [key |-> key, value |-> value]

\* the condition of both connect paths: if self.username and self.password
UseCredentials_Either(w) == TruthyStr(w.username) \/ TruthyStr(w.password)

UseCredentials(w) == TruthyStr(w.username) /\ TruthyStr(w.password)

\* SQLServerConnection._build_connection_string: the parts that ";".join
\* puts together, in their order
BuildConnectionString(w) ==
    <<Part("DRIVER", "{" \o w.driver \o "}"),
      Part("SERVER", w.server \o "," \o w.port),
      Part("DATABASE", w.database)>>
    \o (IF UseCredentials(w)
        THEN <<Part("UID", IF w.username = None THEN "None" ELSE w.username[1]),
               Part("PWD", IF w.password = None THEN "None" ELSE w.password[1])>>
        ELSE <<Part("Trusted_Connection", "yes")>>)

\* d[key] = value on a dict
DictSet(d, key, value) ==
    [k \in DOMAIN d \cup {key} |-> IF k = key THEN value ELSE d[k]]

\* {**a, **b}: the keys of b win
DictMerge(a, b) ==
    [k \in DOMAIN a \cup DOMAIN b |-> IF k \in DOMAIN b THEN b[k] ELSE a[k]]

\* conn_params of SnowflakeConnection.connect; user, password and role hold
\* the wrapper's fields as they are (None or a str)
SnowflakeConnParams(w) ==
    LET base == DictMerge([account |-> w.account,
                           warehouse |-> w.warehouse,
                           database |-> w.database,
                           schema |-> w.schema],
                          w.connection_params)
        withUser == IF UseCredentials(w)
                    THEN DictSet(DictSet(base, "user", w.username),
                                 "password", w.password)
                    ELSE base
    IN IF TruthyStr(w.role) THEN DictSet(withUser, "role", w.role)
       ELSE withUser

\* what connect hands to the driver: pyodbc.connect(connection_string) or
\* snowflake.connector.connect(**conn_params)
ConnectArguments(w) ==
    IF w.platform = SQLServer THEN BuildConnectionString(w)
    ELSE SnowflakeConnParams(w)

\* the driver before any call: no handle opened, no arguments seen
DriverIdle == [closes |-> <<>>, arguments |-> None]

\* the driver opens one more handle for the arguments it is given
DriverOpens(d, arguments) ==
    [closes |-> Append(d.closes, 0), arguments |-> Some(arguments)]

\* the driver refuses the arguments it is given
DriverRefuses(d, arguments) == [d EXCEPT !.arguments = Some(arguments)]

\* connect, when the driver returns a handle: the wrapper keeps it
ConnectKeeps(w, d) == [w EXCEPT !.connection = Some(Len(d.closes) + 1)]

\* connection.close() on handle h
DriverCloses(d, h) == [d EXCEPT !.closes[h] = @ + 1]

\* disconnect, a variant that closes the handle and keeps holding it
DisconnectWrapper_Keeps(w) == w

\* disconnect: what becomes of the wrapper
DisconnectWrapper(w) == [w EXCEPT !.connection = None]

\* disconnect: what becomes of the driver's handles
DisconnectDriver(w, d) ==
    IF w.connection # None THEN DriverCloses(d, w.connection[1]) ELSE d

\* __exit__, a variant that disconnects only when the block ended normally
ExitDisconnects_Normally(exc) == exc = None

\* __exit__(exc_type, exc_val, exc_tb) calls disconnect whatever it is given
ExitDisconnects(exc) == TRUE

\* an exception raised by the body of a with block
BodyError == [msg |-> "raised in the block", type |-> "ValueError"]

\* no call of the wrapper so far
NoCall ==
    [op |-> "none", previous |-> "none", held |-> None, closes |-> <<>>,
     driver_error |-> None, raised |-> None]

\* the record of one call of the wrapper: what it was, what came before
\* it, what the wrapper held and the driver had closed when it began, what
\* the driver raised inside it and what it raised
Call(op, last, w, d, driver_error, raised) ==
    [op |-> op, previous |-> last.op, held |-> w.connection,
     closes |-> d.closes, driver_error |-> driver_error, raised |-> raised]

(***************************************************************************)
(* State.                                                                  *)
(***************************************************************************)
VARIABLES
    sqlserver_results, \* the first argument of compare_results
    snowflake_results, \* the second argument of compare_results
    comparison,        \* None, or how the call of compare_results ended
    stat_results,      \* the argument of calculate_statistics
    statistics,        \* None, or what calculate_statistics returned

    wrapper,           \* a connection wrapper: its fields
    driver,            \* the driver: close() calls per handle, last arguments
    scope,             \* the with block around the wrapper
    call,              \* the last call of the wrapper
    manager,           \* a SchemaManager on the wrapper, and its calls so far

    translation_rules, \* QueryTranslator.translation_rules
    sqlserver_query,   \* the argument of translate
    ntokens,           \* the fragments sqlserver_query has been built from
    translated,        \* what the last call of translate returned, or None
    tphase,            \* "input", "translated", "retranslated"

    queries,          \* the batch handed to execute_parallel
    parallel_workers, \* QueryExecutor.parallel_workers
    pc,               \* the submitting thread: "submit", "wait", "returned"
    nsubmitted,       \* how many jobs the submit loop has submitted
    wpc,              \* per job: where its worker function stands
    outcome,          \* per job: its future (Pending, Returned, Raised)
    conn,             \* per job: the local conn of execute_*
    connection,       \* per platform: the wrapper's connection field
    elapsed,          \* per job: time.time() - start_time of the running call
    waited,           \* ticks the submitting thread has waited on a future
    results,          \* the results list of execute_parallel
    timedOut,         \* the jobs whose future.result raised TimeoutError
    thrown            \* per job: the exception raised inside its call, if any

execVars == <<queries, parallel_workers, pc, nsubmitted, wpc, outcome, conn,
              connection, elapsed, waited, results, timedOut, thrown>>

transVars == <<translation_rules, sqlserver_query, ntokens, translated, tphase>>

compVars == <<sqlserver_results, snowflake_results, comparison,
              stat_results, statistics>>

connVars == <<wrapper, driver, scope, call>>

schemaVars == <<manager>>

vars == <<execVars, transVars, compVars, connVars, schemaVars>>

\* what a step of one component leaves alone: the other components
ExecFrame == UNCHANGED <<transVars, compVars, connVars, schemaVars>>
TransFrame == UNCHANGED <<execVars, compVars, connVars, schemaVars>>
CompFrame == UNCHANGED <<execVars, transVars, connVars, schemaVars>>
ConnFrame == UNCHANGED <<execVars, transVars, compVars, schemaVars>>
SchemaFrame == UNCHANGED <<execVars, transVars, compVars, scope, call>>

N == Len(queries)
Jobs == 1..N

\* elapsed time is counted up to just past the timeout
ElapsedCap == Timeout + 1

\* a job record of the batch
QueryInfo(i, platform) ==
    [query |-> "SELECT " \o ToString(i), platform |-> platform, query_id |-> i]

Batches ==
    UNION {{[i \in 1..n |-> QueryInfo(i, f[i])] : f \in [1..n -> Platforms]} :
           n \in 0..MaxJobs}

\* QueryTranslator.__init__, before any call of translate
TransInit ==
    /\ translation_rules = InitialTranslationRules
    /\ sqlserver_query = <<>>
    /\ ntokens = 0
    /\ translated = None
    /\ tphase = "input"

\* PerformanceComparator.__init__, before any call of compare_results
CompInit ==
    /\ sqlserver_results = <<>>
    /\ snowflake_results = <<>>
    /\ comparison = None
    /\ stat_results = <<>>
    /\ statistics = None

\* no with block entered so far
NoScope == [pc |-> "outside", handle |-> None, raised |-> None]

\* SchemaManager.__init__: self._conn = None; no method called so far
NewManager ==
    [conn |-> None, calls |-> 0, connects |-> 0, refused |-> 0,
     last |-> [op |-> "none", held |-> None, connected |-> FALSE,
               raised |-> None, returned |-> None]]

\* a wrapper nobody calls, with a schema manager nobody calls
ConnIdle ==
    /\ manager = NewManager
    /\ wrapper = SQLServerWrapper(None, None, EmptyDict)
    /\ driver = DriverIdle
    /\ scope = NoScope
    /\ call = NoCall

\* the executor before any call, with an empty batch
ExecIdle ==
    /\ queries = <<>>
    /\ parallel_workers = 1
    /\ pc = "submit"
    /\ nsubmitted = 0
    /\ wpc = <<>>
    /\ outcome = <<>>
    /\ conn = <<>>
    /\ connection = [p \in Platforms |-> None]
    /\ elapsed = <<>>
    /\ waited = 0
    /\ results = <<>>
    /\ timedOut = {}
    /\ thrown = <<>>

\* QueryExecutor.__init__ and the entry of execute_parallel
ExecInit ==
    /\ TransInit
    /\ CompInit
    /\ ConnIdle
    /\ queries \in Batches
    /\ parallel_workers \in 1..MaxWorkers
    /\ pc = "submit"
    /\ nsubmitted = 0
    /\ wpc = [j \in 1..Len(queries) |-> "unsubmitted"]
    /\ outcome = [j \in 1..Len(queries) |-> Pending]
    /\ conn = [j \in 1..Len(queries) |-> None]
    /\ connection = [p \in Platforms |-> None]
    /\ elapsed = [j \in 1..Len(queries) |-> 0]
    /\ waited = 0
    /\ results = <<>>
    /\ timedOut = {}
    /\ thrown = [j \in 1..Len(queries) |-> None]

Running(j) == wpc[j] \in {"started", "opened", "connected", "hung"}
NumRunning == Cardinality({j \in Jobs : Running(j)})

(***************************************************************************)
(* The submitting thread.                                                  *)
(***************************************************************************)
\* one iteration of the submit loop: executor.submit(...)
Submit ==
    /\ pc = "submit"
    /\ nsubmitted < N
    /\ nsubmitted' = nsubmitted + 1
    /\ wpc' = [wpc EXCEPT ![nsubmitted + 1] = "queued"]
    /\ UNCHANGED <<queries, parallel_workers, pc, outcome, conn, connection,
                   elapsed, waited, results, timedOut, thrown>>
    /\ ExecFrame

\* the submit loop ends; the drain loop begins
EndSubmit ==
    /\ pc = "submit"
    /\ nsubmitted = N
    /\ pc' = "wait"
    /\ waited' = 0
    /\ UNCHANGED <<queries, parallel_workers, nsubmitted, wpc, outcome, conn,
                   connection, elapsed, results, timedOut, thrown>>
    /\ ExecFrame

\* a variant of the drain loop that goes through the futures backwards
AwaitedJob_Backwards == N - Len(results)

\* for future, query_info in futures: the job whose future is awaited next
AwaitedJob == Len(results) + 1

\* future.result(timeout) finds the future finished
AwaitResult ==
    /\ pc = "wait"
    /\ Len(results) < N
    /\ LET k == AwaitedJob IN
         /\ outcome[k].kind # "none"
         /\ results' =
              Append(results,
                     IF outcome[k].kind = "returned"
                     THEN Update(outcome[k].value, queries[k])
                     ELSE ParallelErrorResult(queries[k], outcome[k].exc))
    /\ waited' = 0
    /\ UNCHANGED <<queries, parallel_workers, pc, nsubmitted, wpc, outcome,
                   conn, connection, elapsed, timedOut, thrown>>
    /\ ExecFrame

\* future.result(timeout) raises TimeoutError: the wait has lasted the
\* timeout and the future is still not finished
AwaitTimeout ==
    /\ pc = "wait"
    /\ Len(results) < N
    /\ LET k == AwaitedJob IN
         /\ outcome[k].kind = "none"
         /\ waited = Timeout
         /\ results' = Append(results, ParallelErrorResult(queries[k], TimeoutError))
         /\ timedOut' = timedOut \cup {k}
    /\ waited' = 0
    /\ UNCHANGED <<queries, parallel_workers, pc, nsubmitted, wpc, outcome,
                   conn, connection, elapsed, thrown>>
    /\ ExecFrame

\* leaving the with block: ThreadPoolExecutor.__exit__ is shutdown(wait=True),
\* which joins every worker; then return results
ShutdownAndReturn ==
    /\ pc = "wait"
    /\ Len(results) = N
    /\ \A j \in Jobs : wpc[j] = "done"
    /\ pc' = "returned"
    /\ UNCHANGED <<queries, parallel_workers, nsubmitted, wpc, outcome, conn,
                   connection, elapsed, waited, results, timedOut, thrown>>
    /\ ExecFrame

(***************************************************************************)
(* The workers: execute_sql_server / execute_snowflake on one job.         *)
(***************************************************************************)
\* a variant in which the pool runs the work item again
WorkerReturns_Requeues(j) ==
    /\ wpc' = [wpc EXCEPT ![j] = "queued"]
    /\ elapsed' = [elapsed EXCEPT ![j] = 0]
    /\ conn' = [conn EXCEPT ![j] = None]

\* the worker function returns: its locals (start_time, conn) are gone
WorkerReturns(j) ==
    /\ wpc' = [wpc EXCEPT ![j] = "done"]
    /\ elapsed' = [elapsed EXCEPT ![j] = 0]
    /\ conn' = [conn EXCEPT ![j] = None]

\* a pool thread takes the oldest queued work item; start_time = time.time()
StartJob(j) ==
    /\ wpc[j] = "queued"
    /\ \A i \in 1..(j - 1) : wpc[i] # "queued"
    /\ NumRunning < parallel_workers
    /\ wpc' = [wpc EXCEPT ![j] = "started"]
    /\ elapsed' = [elapsed EXCEPT ![j] = 0]
    /\ UNCHANGED <<queries, parallel_workers, pc, nsubmitted, outcome, conn,
                   connection, waited, results, timedOut, thrown>>
    /\ ExecFrame

\* wrapper.connect(): self.connection = driver.connect(...)
DriverConnectOk(j) ==
    /\ wpc[j] = "started"
    /\ connection' = [connection EXCEPT ![DispatchPlatform(queries[j])] = Some(j)]
    /\ wpc' = [wpc EXCEPT ![j] = "opened"]
    /\ UNCHANGED <<queries, parallel_workers, pc, nsubmitted, outcome, conn,
                   elapsed, waited, results, timedOut, thrown>>
    /\ ExecFrame

\* the driver's connect raises: connect raises DatabaseConnectionError, which
\* the except clause of execute_* turns into an error result
DriverConnectFails(j) ==
    /\ wpc[j] = "started"
    /\ LET e == DatabaseConnectionError(DispatchPlatform(queries[j]),
                                        DriverError("connect")) IN
         /\ outcome' = [outcome EXCEPT ![j] = ExceptClause(e)]
         /\ thrown' = [thrown EXCEPT ![j] = Some(e)]
    /\ WorkerReturns(j)
    /\ UNCHANGED <<queries, parallel_workers, pc, nsubmitted, connection,
                   waited, results, timedOut>>
    /\ ExecFrame

\* wrapper.connect(): return self.connection; conn = ...
ConnectReturn(j) ==
    /\ wpc[j] = "opened"
    /\ conn' = [conn EXCEPT ![j] = connection[DispatchPlatform(queries[j])]]
    /\ wpc' = [wpc EXCEPT ![j] = "connected"]
    /\ UNCHANGED <<queries, parallel_workers, pc, nsubmitted, outcome,
                   connection, elapsed, waited, results, timedOut, thrown>>
    /\ ExecFrame

\* cursor(), execute(query), fetchall() all return; the timing is taken and
\* the success result returned
RunQueryOk(j) ==
    /\ wpc[j] = "connected"
    /\ LET rows == FetchedRows(queries[j]) IN
         outcome' = [outcome EXCEPT ![j] =
                        Returned(SuccessResult(elapsed[j], Len(rows)))]
    /\ WorkerReturns(j)
    /\ UNCHANGED <<queries, parallel_workers, pc, nsubmitted, connection,
                   waited, results, timedOut, thrown>>
    /\ ExecFrame

\* cursor(), execute(query) or fetchall() raises
RunQueryFails(j) ==
    /\ wpc[j] = "connected"
    /\ LET e == DriverError(FailingCall(queries[j])) IN
         /\ outcome' = [outcome EXCEPT ![j] = ExceptClause(e)]
         /\ thrown' = [thrown EXCEPT ![j] = Some(e)]
    /\ WorkerReturns(j)
    /\ UNCHANGED <<queries, parallel_workers, pc, nsubmitted, connection,
                   waited, results, timedOut>>
    /\ ExecFrame

\* a blocking driver call (connect or execute) that never returns
DriverCallHangs(j) ==
    /\ wpc[j] \in {"started", "connected"}
    /\ wpc' = [wpc EXCEPT ![j] = "hung"]
    /\ UNCHANGED <<queries, parallel_workers, pc, nsubmitted, outcome, conn,
                   connection, elapsed, waited, results, timedOut, thrown>>
    /\ ExecFrame

\* one tick of wall-clock time: every running call has lasted a tick longer,
\* and so has the wait of the submitting thread; a wait that has lasted the
\* timeout ends before the clock moves on.  The submit loop only enqueues,
\* and an idle pool thread takes a queued work item at once: neither takes
\* time on the scale of the timeout.
Tick ==
    /\ pc # "submit"
    /\ ~(pc = "wait" /\ Len(results) < N /\ waited = Timeout)
    /\ ~(NumRunning < parallel_workers /\ \E j \in Jobs : wpc[j] = "queued")
    /\ \/ \E j \in Jobs : Running(j) /\ elapsed[j] < ElapsedCap
       \/ pc = "wait" /\ Len(results) < N
    /\ elapsed' = [j \in Jobs |->
                     IF Running(j) /\ elapsed[j] < ElapsedCap
                     THEN elapsed[j] + 1 ELSE elapsed[j]]
    /\ waited' = IF pc = "wait" /\ Len(results) < N THEN waited + 1 ELSE waited
    /\ UNCHANGED <<queries, parallel_workers, pc, nsubmitted, wpc, outcome,
                   conn, connection, results, timedOut, thrown>>
    /\ ExecFrame

ExecNext ==
    \/ Submit
    \/ EndSubmit
    \/ AwaitResult
    \/ AwaitTimeout
    \/ ShutdownAndReturn
    \/ \E j \in Jobs : StartJob(j)
    \/ \E j \in Jobs : DriverConnectOk(j)
    \/ \E j \in Jobs : DriverConnectFails(j)
    \/ \E j \in Jobs : ConnectReturn(j)
    \/ \E j \in Jobs : RunQueryOk(j)
    \/ \E j \in Jobs : RunQueryFails(j)
    \/ Tick

ExecSpec == ExecInit /\ [][ExecNext]_vars

\* the executor when a blocking driver call may also never return
HangNext ==
    \/ ExecNext
    \/ \E j \in Jobs : DriverCallHangs(j)

HangSpec == ExecInit /\ [][HangNext]_vars /\ WF_vars(HangNext)

(***************************************************************************)
(* The translator: texts are built from fragments and handed to translate; *)
(* the result may be handed to translate again.                            *)
(***************************************************************************)
\* the caller extends the text it is going to translate
AppendToken(t) ==
    /\ tphase = "input"
    /\ ntokens < MaxTokens
    /\ sqlserver_query' = sqlserver_query \o t
    /\ ntokens' = ntokens + 1
    /\ UNCHANGED <<translation_rules, translated, tphase>>
    /\ TransFrame

\* translated = translator.translate(sqlserver_query)
CallTranslate ==
    /\ tphase = "input"
    /\ translated' = Some(Translate(translation_rules, sqlserver_query))
    /\ tphase' = "translated"
    /\ UNCHANGED <<translation_rules, sqlserver_query, ntokens>>
    /\ TransFrame

\* translator.translate(translated): the result is translated again
CallTranslateAgain ==
    /\ tphase = "translated"
    /\ sqlserver_query' = translated[1]
    /\ translated' = Some(Translate(translation_rules, translated[1]))
    /\ tphase' = "retranslated"
    /\ UNCHANGED <<translation_rules, ntokens>>
    /\ TransFrame

TranslateNext ==
    \/ \E t \in Tokens : AppendToken(t)
    \/ CallTranslate
    \/ CallTranslateAgain

TranslateInit == TransInit /\ ExecIdle /\ CompInit /\ ConnIdle

TranslateSpec == TranslateInit /\ [][TranslateNext]_vars

(***************************************************************************)
(* The comparator: two batches are collected and handed to                 *)
(* compare_results.                                                        *)
(***************************************************************************)
\* the caller collects a SQL Server result
AddSqlServerResult(r) ==
    /\ comparison = None
    /\ Len(sqlserver_results) < MaxBatch
    /\ sqlserver_results' = Append(sqlserver_results, r)
    /\ UNCHANGED <<snowflake_results, comparison, stat_results, statistics>>
    /\ CompFrame

\* the caller collects a Snowflake result
AddSnowflakeResult(r) ==
    /\ comparison = None
    /\ Len(snowflake_results) < MaxBatch
    /\ snowflake_results' = Append(snowflake_results, r)
    /\ UNCHANGED <<sqlserver_results, comparison, stat_results, statistics>>
    /\ CompFrame

\* comparator.compare_results(sqlserver_results, snowflake_results)
CallCompareResults ==
    /\ comparison = None
    /\ comparison' = Some(CompareResults(sqlserver_results, snowflake_results))
    /\ UNCHANGED <<sqlserver_results, snowflake_results, stat_results, statistics>>
    /\ CompFrame

CompareNext ==
    \/ \E r \in ComparatorRecords : AddSqlServerResult(r)
    \/ \E r \in ComparatorRecords : AddSnowflakeResult(r)
    \/ CallCompareResults

CompareInit == CompInit /\ ExecIdle /\ TransInit /\ ConnIdle

CompareSpec == CompareInit /\ [][CompareNext]_vars

\* the caller collects a result for calculate_statistics
AddStatResult(r) ==
    /\ statistics = None
    /\ Len(stat_results) < MaxBatch
    /\ stat_results' = Append(stat_results, r)
    /\ UNCHANGED <<sqlserver_results, snowflake_results, comparison, statistics>>
    /\ CompFrame

\* comparator.calculate_statistics(results)
CallCalculateStatistics ==
    /\ statistics = None
    /\ statistics' = Some(CalculateStatistics(stat_results))
    /\ UNCHANGED <<sqlserver_results, snowflake_results, comparison, stat_results>>
    /\ CompFrame

StatisticsNext ==
    \/ \E r \in ComparatorRecords : AddStatResult(r)
    \/ CallCalculateStatistics

StatisticsSpec == CompareInit /\ [][StatisticsNext]_vars

\* the caller collects the result of one more successful SQL Server run
AddSqlServerRun(t) ==
    /\ comparison = None
    /\ Len(sqlserver_results) < MaxRuns
    /\ sqlserver_results' = Append(sqlserver_results, RunRecord(t))
    /\ UNCHANGED <<snowflake_results, comparison, stat_results, statistics>>
    /\ CompFrame

\* the caller collects the result of one more successful Snowflake run
AddSnowflakeRun(t) ==
    /\ comparison = None
    /\ Len(snowflake_results) < MaxRuns
    /\ snowflake_results' = Append(snowflake_results, RunRecord(t))
    /\ UNCHANGED <<sqlserver_results, comparison, stat_results, statistics>>
    /\ CompFrame

\* compare_results on the successful runs of one query
RunsNext ==
    \/ \E t \in RunTimings : AddSqlServerRun(t)
    \/ \E t \in RunTimings : AddSnowflakeRun(t)
    \/ CallCompareResults

RunsSpec == CompareInit /\ [][RunsNext]_vars

\* the timings of the runs handed to calculate_statistics
StatTimings == {33, 34, 35, 36}

\* the caller collects the result of one more successful run
AddStatRun(t) ==
    /\ statistics = None
    /\ Len(stat_results) < MaxRuns
    /\ stat_results' = Append(stat_results, RunRecord(t))
    /\ UNCHANGED <<sqlserver_results, snowflake_results, comparison, statistics>>
    /\ CompFrame

\* calculate_statistics on the successful runs of one query
RunStatisticsNext ==
    \/ \E t \in StatTimings : AddStatRun(t)
    \/ CallCalculateStatistics

RunStatisticsSpec == CompareInit /\ [][RunStatisticsNext]_vars

\* the results execute_parallel can produce for a job of a platform: a
\* success after 0 or 100 ms, the error result of a call that threw, and the
\* error result of a wait that timed out
ParallelResults(platform) ==
    LET query_info == QueryInfo(1, platform)
    IN {Update(SuccessResult(t, 1), query_info) : t \in {0, 100}}
       \cup {Update(ErrorResult(DriverError("execute")), query_info),
             ParallelErrorResult(query_info, TimeoutError)}

\* comparator.calculate_statistics(batch) on one of the two batches
CallCalculateStatisticsOn(batch) ==
    /\ statistics = None
    /\ batch # <<>>
    /\ stat_results' = batch
    /\ statistics' = Some(CalculateStatistics(batch))
    /\ UNCHANGED <<sqlserver_results, snowflake_results, comparison>>
    /\ CompFrame

\* the comparator on the results of execute_parallel
PipelineNext ==
    \/ \E r \in ParallelResults(SQLServer) : AddSqlServerResult(r)
    \/ \E r \in ParallelResults(Snowflake) : AddSnowflakeResult(r)
    \/ CallCompareResults
    \/ CallCalculateStatisticsOn(sqlserver_results)
    \/ CallCalculateStatisticsOn(snowflake_results)

PipelineSpec == CompareInit /\ [][PipelineNext]_vars

(***************************************************************************)
(* The connection wrappers: a caller constructs one wrapper and calls      *)
(* connect and disconnect on it, or uses it as the resource of a with      *)
(* block.  The driver answers each connect with a new handle or with an    *)
(* exception; close() on a handle returns.                                 *)
(***************************************************************************)
\* __init__ of either wrapper
WrapperInit ==
    /\ manager = NewManager
    /\ wrapper \in Wrappers
    /\ driver = DriverIdle
    /\ scope = NoScope
    /\ call = NoCall

ConnectionInit == WrapperInit /\ ExecIdle /\ TransInit /\ CompInit

\* connect(): the driver returns a handle
ConnectReturns ==
    /\ scope.pc # "body"
    /\ Len(driver.closes) < MaxHandles
    /\ wrapper' = ConnectKeeps(wrapper, driver)
    /\ driver' = DriverOpens(driver, ConnectArguments(wrapper))
    /\ call' = Call("connect", call, wrapper, driver, None, None)
    /\ UNCHANGED scope
    /\ ConnFrame

\* connect(): the driver raises, and the except clause raises in its turn
ConnectRaises ==
    /\ scope.pc # "body"
    /\ driver' = DriverRefuses(driver, ConnectArguments(wrapper))
    /\ call' = Call("connect", call, wrapper, driver,
                    Some(DriverError("connect")),
                    Some(DatabaseConnectionError(wrapper.platform,
                                                 DriverError("connect"))))
    /\ UNCHANGED <<wrapper, scope>>
    /\ ConnFrame

\* disconnect(), outside or inside a with block
Disconnect ==
    /\ call.op # "none"
    /\ wrapper' = DisconnectWrapper(wrapper)
    /\ driver' = DisconnectDriver(wrapper, driver)
    /\ call' = Call("disconnect", call, wrapper, driver, None, None)
    /\ UNCHANGED scope
    /\ ConnFrame

\* with wrapper as conn: __enter__ returns what connect returns
EnterReturns ==
    /\ scope.pc # "body"
    /\ Len(driver.closes) < MaxHandles
    /\ wrapper' = ConnectKeeps(wrapper, driver)
    /\ driver' = DriverOpens(driver, ConnectArguments(wrapper))
    /\ scope' = [pc |-> "body", handle |-> Some(Len(driver.closes) + 1),
                 raised |-> None]
    /\ call' = Call("enter", call, wrapper, driver, None, None)
    /\ ConnFrame

\* with wrapper as conn: connect raises, the block is never entered
EnterRaises ==
    /\ scope.pc # "body"
    /\ driver' = DriverRefuses(driver, ConnectArguments(wrapper))
    /\ call' = Call("enter", call, wrapper, driver,
                    Some(DriverError("connect")),
                    Some(DatabaseConnectionError(wrapper.platform,
                                                 DriverError("connect"))))
    /\ UNCHANGED <<wrapper, scope>>
    /\ ConnFrame

\* the with statement leaves the block, exc being what the body raised:
\* __exit__ returns None, so what was raised goes on to the caller
LeaveBlock(exc) ==
    /\ scope.pc = "body"
    /\ wrapper' = IF ExitDisconnects(exc) THEN DisconnectWrapper(wrapper)
                  ELSE wrapper
    /\ driver' = IF ExitDisconnects(exc) THEN DisconnectDriver(wrapper, driver)
                 ELSE driver
    /\ scope' = [scope EXCEPT !.pc = "outside", !.raised = exc]
    /\ call' = Call("exit", call, wrapper, driver, None, exc)
    /\ ConnFrame

\* the body of the block runs to its end
BodyReturns == LeaveBlock(None)

\* the body of the block raises
BodyRaises == LeaveBlock(Some(BodyError))

\* the result of execute_sql_server / execute_snowflake on the wrapper
ExecutionResults ==
    {SuccessResult(0, 1), ErrorResult(DriverError("execute"))}

\* executor.execute_sql_server(query) / execute_snowflake(query) with this
\* wrapper: connect() returns a handle, the query runs on it and succeeds or
\* raises, a result is returned; the handle is not closed
ExecuteOnHandle(result) ==
    /\ scope.pc # "body"
    /\ Len(driver.closes) < MaxHandles
    /\ wrapper' = ConnectKeeps(wrapper, driver)
    /\ driver' = DriverOpens(driver, ConnectArguments(wrapper))
    /\ call' = [Call("execute", call, wrapper, driver, None, None)
                   EXCEPT !.driver_error =
                       IF result.status = "error"
                       THEN Some(DriverError("execute")) ELSE None]
    /\ UNCHANGED scope
    /\ ConnFrame

\* the same call when connect() raises: the except clause of execute_*
\* returns an error result
ExecuteWithoutHandle ==
    /\ scope.pc # "body"
    /\ driver' = DriverRefuses(driver, ConnectArguments(wrapper))
    /\ call' = Call("execute", call, wrapper, driver,
                    Some(DriverError("connect")), None)
    /\ UNCHANGED <<wrapper, scope>>
    /\ ConnFrame

ConnectionNext ==
    \/ ConnectReturns
    \/ ConnectRaises
    \/ Disconnect
    \/ EnterReturns
    \/ EnterRaises
    \/ BodyReturns
    \/ BodyRaises
    \/ \E result \in ExecutionResults : ExecuteOnHandle(result)
    \/ ExecuteWithoutHandle

ConnectionSpec == ConnectionInit /\ [][ConnectionNext]_vars

(***************************************************************************)
(* schema.py: a SchemaManager on a SQL Server wrapper.  Each method first  *)
(* makes sure of the connection, then runs one query on it.                *)
(***************************************************************************)
\* the most calls of the manager's methods
MaxSchemaCalls == 3

\* SchemaError raised from e by the except clause of a method
SchemaError(prefix, e) ==
    [msg |-> prefix \o Str(e), type |-> "SchemaError", cause |-> e]

\* a variant of the test of _ensure_connection that connects every time
NeedsConnection_Always(m) == TRUE

\* _ensure_connection: if not self._conn
NeedsConnection(m) == m.conn = None

\* what the query of a method gave: the count fetched by table_exists, the
\* rows fetched by get_table_info, or the exception of the cursor
QueryOutcomes(op) ==
    {[raised |-> Some(DriverError("execute")), value |-> None]}
    \cup (IF op = "table_exists"
          THEN {[raised |-> None, value |-> Some(count)] : count \in {0, 1}}
          ELSE {[raised |-> None, value |-> Some(rows)] :
                   rows \in {<<>>, << <<"id", "int", "NO", "NULL">> >>}})

\* the columns get_table_info builds from the fetched rows
Columns(rows) ==
    [i \in DOMAIN rows |->
        [name |-> rows[i][1], data_type |-> rows[i][2],
         is_nullable |-> rows[i][3], default |-> rows[i][4]]]

\* what a method returns for what its query fetched
SchemaReturn(op, value) ==
    IF op = "table_exists" THEN value > 0 ELSE Columns(value)

\* the prefix of the message of a method's SchemaError
SchemaFailedPrefix(op) ==
    IF op = "table_exists" THEN "Failed to check table existence: "
    ELSE "Failed to get table info: "

SchemaInit ==
    /\ manager = NewManager
    /\ wrapper \in {SQLServerWrapper(u, p, EmptyDict) :
                       u \in Credentials, p \in Credentials}
    /\ driver = DriverIdle
    /\ scope = NoScope
    /\ call = NoCall
    /\ ExecIdle
    /\ TransInit
    /\ CompInit

\* table_exists / get_table_info when _ensure_connection has, or opens, a
\* connection: the query runs on self._conn and the method returns or
\* raises SchemaError
SchemaCallRuns(op, fetched) ==
    /\ manager.calls < MaxSchemaCalls
    /\ NeedsConnection(manager) => Len(driver.closes) < MaxHandles
    /\ wrapper' = IF NeedsConnection(manager) THEN ConnectKeeps(wrapper, driver)
                  ELSE wrapper
    /\ driver' = IF NeedsConnection(manager)
                 THEN DriverOpens(driver, ConnectArguments(wrapper))
                 ELSE driver
    /\ manager' =
         [conn |-> IF NeedsConnection(manager)
                   THEN Some(Len(driver.closes) + 1) ELSE manager.conn,
          calls |-> manager.calls + 1,
          connects |-> manager.connects
                           + (IF NeedsConnection(manager) THEN 1 ELSE 0),
          refused |-> manager.refused,
          last |-> [op |-> op,
                    held |-> manager.conn,
                    connected |-> NeedsConnection(manager),
                    raised |-> IF fetched.raised # None
                               THEN Some(SchemaError(SchemaFailedPrefix(op),
                                                     fetched.raised[1]))
                               ELSE None,
                    returned |-> IF fetched.raised # None THEN None
                                 ELSE Some(SchemaReturn(op, fetched.value[1]))]]
    /\ SchemaFrame

\* table_exists / get_table_info when connect raises in _ensure_connection:
\* self._conn stays None and the method raises SchemaError
SchemaCallRefused(op) ==
    /\ manager.calls < MaxSchemaCalls
    /\ NeedsConnection(manager)
    /\ driver' = DriverRefuses(driver, ConnectArguments(wrapper))
    /\ manager' =
         [manager EXCEPT
            !.calls = @ + 1,
            !.connects = @ + 1,
            !.refused = @ + 1,
            !.last = [op |-> op,
                      held |-> manager.conn,
                      connected |-> TRUE,
                      raised |-> Some(SchemaError(
                          SchemaFailedPrefix(op),
                          DatabaseConnectionError(wrapper.platform,
                                                  DriverError("connect")))),
                      returned |-> None]]
    /\ UNCHANGED wrapper
    /\ SchemaFrame

SchemaOps == {"table_exists", "get_table_info"}

SchemaNext ==
    \/ \E op \in SchemaOps : \E fetched \in QueryOutcomes(op) :
           SchemaCallRuns(op, fetched)
    \/ \E op \in SchemaOps : SchemaCallRefused(op)

SchemaSpec == SchemaInit /\ [][SchemaNext]_vars

(***************************************************************************)
(* Properties of the executor.                                             *)
(***************************************************************************)
\* result r carries every field of job q (query, platform, query_id)
CarriesJob(r, q) == \A key \in DOMAIN q : key \in DOMAIN r /\ r[key] = q[key]

\* the call of job j returned a success result
CallSucceeded(j) ==
    outcome[j].kind = "returned" /\ outcome[j].value.status = "success"

\* the call of job j raised inside execute_* (connection or query failure)
CallThrew(j) == thrown[j] # None

\* the call of job j has lasted longer than the timeout: it is still running
\* past the timeout, or returned an execution time past it
CallRanLongerThanTimeout(j) ==
    \/ Running(j) /\ elapsed[j] > Timeout
    \/ CallSucceeded(j) /\ outcome[j].value.execution_time_ms[1] > Timeout

\* C1: when execute_parallel returns, whatever the mix of successes, thrown
\* exceptions and timeouts and whatever the interleaving of the workers, the
\* list has exactly one result per submitted job: N results, and each job's
\* fields (query, platform, query_id) are carried by exactly one of them.
C1_OneResultPerJob ==
    pc = "returned" =>
        /\ Len(results) = N
        /\ \A j \in Jobs :
             Cardinality({k \in 1..Len(results) :
                             CarriesJob(results[k], queries[j])}) = 1

\* a returned batch of two or more jobs in which one job timed out, one threw
\* and one succeeded or threw without timing out
C1_Witness ==
    /\ pc = "returned"
    /\ N >= 2
    /\ timedOut # {}
    /\ \E j \in Jobs \ timedOut : CallThrew(j)

\* C2 (as claimed): once a wait on a future has timed out, execute_parallel
\* eventually returns, also when the call of the timed-out job never returns.
C2_ReturnsAfterTimeout == (timedOut # {}) ~> (pc = "returned")

\* C3 (as claimed): when execute_parallel has returned, every job whose call
\* ran longer than the timeout has the timeout error as its result: the job's
\* fields, status "error" and str(TimeoutError) as error_message.
C3_LongCallGetsTimeoutError ==
    pc = "returned" =>
        \A j \in Jobs :
            CallRanLongerThanTimeout(j) =>
                results[j] = ParallelErrorResult(queries[j], TimeoutError)

\* C18: when execute_parallel has returned, every job whose own call
\* succeeded in less than the timeout has a result with status "success",
\* whatever the number of workers and whatever the other jobs did.
C18_TimeoutDoesNotAffectSiblings ==
    pc = "returned" =>
        \A j \in Jobs :
            (CallSucceeded(j) /\ outcome[j].value.execution_time_ms[1] < Timeout)
                => results[j].status = "success"

\* the four fields of an execution result
ResultFields == {"execution_time_ms", "row_count", "status", "error_message"}

\* C19: every result of a returned batch has the four fields
\* execution_time_ms, row_count, status and error_message; status is
\* "success" or "error"; the timing and the row count are integers on
\* "success" and None on "error".
C19_ResultsHaveFourFields ==
    pc = "returned" =>
        \A k \in 1..Len(results) :
            /\ ResultFields \subseteq DOMAIN results[k]
            /\ results[k].status \in {"success", "error"}
            /\ results[k].status = "success" =>
                   /\ results[k].execution_time_ms # None
                   /\ results[k].execution_time_ms[1] \in Nat
                   /\ results[k].row_count # None
                   /\ results[k].row_count[1] \in Nat
            /\ results[k].status = "error" =>
                   /\ results[k].execution_time_ms = None
                   /\ results[k].row_count = None

\* the running worker of job j has assigned the connection field of the
\* wrapper of its platform: self.connection = driver.connect(...)
WroteConnection(j) == wpc[j] \in {"opened", "connected"}

\* C25: no field is written by two concurrently running workers: two
\* workers that are running at the same time have not both assigned the
\* connection field of the same wrapper.
C25_NoSharedWrites ==
    \A i \in Jobs : \A j \in Jobs :
        (i # j /\ WroteConnection(i) /\ WroteConnection(j)) =>
            DispatchPlatform(queries[i]) # DispatchPlatform(queries[j])

\* how far the work item of a job has come
Stage(at) ==
    CASE at = "unsubmitted" -> 0
      [] at = "queued" -> 1
      [] at = "started" -> 2
      [] at = "opened" -> 3
      [] at = "connected" -> 4
      [] at = "hung" -> 5
      [] at = "done" -> 6

\* C26: each job is attempted at most once.  Its work item only moves
\* forward: it is submitted once, started once, calls connect once and runs
\* its query once, and once it has failed, timed out or returned it is never
\* queued or started again; the connect of a job opens a handle of its own.
C26_AttemptedAtMostOnce ==
    [][\A j \in Jobs :
         /\ wpc'[j] # wpc[j] => Stage(wpc'[j]) > Stage(wpc[j])
         /\ (wpc'[j] = "opened" /\ wpc[j] # "opened") =>
                connection'[DispatchPlatform(queries[j])] = Some(j)
         /\ wpc[j] = "done" => wpc'[j] = "done"
         /\ (j \in timedOut /\ wpc[j] # "queued") => wpc'[j] # "queued"
      ]_vars

\* a returned batch in which the first job timed out and the second threw
C26_Witness ==
    /\ pc = "returned"
    /\ N = 2
    /\ 1 \in timedOut
    /\ CallThrew(2)
    /\ \A j \in Jobs : wpc[j] = "done"

\* C27: the results are in submission order: the i-th result carries the
\* fields of the i-th submitted job, whatever the order in which the workers
\* finish and whichever jobs fail or time out.
C27_ResultsInSubmissionOrder ==
    \A i \in 1..Len(results) : CarriesJob(results[i], queries[i])

\* a returned batch whose second job finished while the first, which timed
\* out, was still running
C27_Witness ==
    /\ pc = "returned"
    /\ N = 2
    /\ timedOut = {1}
    /\ results[2].status = "success"

C5_ExecuteNeverRaises ==
    \A j \in Jobs :
        wpc[j] = "done" =>
            /\ outcome[j].kind = "returned"
            /\ DOMAIN outcome[j].value =
                 {"execution_time_ms", "row_count", "status", "error_message"}
            /\ IF CallThrew(j)
               THEN /\ outcome[j].value.status = "error"
                    /\ outcome[j].value.execution_time_ms = None
                    /\ outcome[j].value.row_count = None
                    /\ outcome[j].value.error_message = Some(Str(thrown[j][1]))
               ELSE /\ outcome[j].value.status = "success"
                    /\ Len(outcome[j].value.execution_time_ms) = 1
                    /\ outcome[j].value.execution_time_ms[1] \in Nat
                    /\ outcome[j].value.row_count =
                         Some(Len(FetchedRows(queries[j])))
                    /\ outcome[j].value.error_message = None

\* two ended calls on each platform's function: a failed connect on one and
\* a query that fetched at least one row on the other
C5_Witness ==
    \E i, j \in Jobs :
        /\ wpc[i] = "done" /\ wpc[j] = "done"
        /\ CallThrew(i) /\ thrown[i][1].type = "DatabaseConnectionError"
        /\ CallSucceeded(j) /\ outcome[j].value.row_count # Some(0)

(***************************************************************************)
(* Properties of the translator.                                           *)
(***************************************************************************)
\* the four literal triggers with their replacements
TriggerPairs ==
    {<<GETDATE, CURRENT_TIMESTAMP>>, <<GETUTCDATE, CURRENT_TIMESTAMP>>,
     <<LEN, LENGTH>>, <<ISNULL, IFNULL>>}

\* C6: after translate, for each of the triggers GETDATE(), GETUTCDATE(),
\* LEN( and ISNULL( that the input contains anywhere (also between quotes),
\* the output contains the trigger's replacement and no occurrence of the
\* trigger.
C6_TriggersReplaced ==
    tphase # "input" =>
        \A p \in TriggerPairs :
            Contains(sqlserver_query, p[1]) =>
                /\ Contains(translated[1], p[2])
                /\ ~Contains(translated[1], p[1])

\* a translated text in which a trigger stood inside a quoted literal
C6_Witness ==
    /\ tphase = "translated"
    /\ \E p \in TriggerPairs :
         Contains(sqlserver_query, <<"'">> \o p[1] \o <<"'">>)

\* the keyword TOP at i in any letter case, delimited by a word boundary on
\* its left and followed by whitespace and then the integer that ends just
\* before position TopIntegerEnd
KeywordTopAt(text, i) ==
    /\ i + 2 <= Len(text)
    /\ text[i] \in {"T", "t"}
    /\ text[i + 1] \in {"O", "o"}
    /\ text[i + 2] \in {"P", "p"}
TopIntegerStart(text, i) == RunEnd(text, i + 3, Whitespace)
TopIntegerEnd(text, i) == RunEnd(text, TopIntegerStart(text, i), Digits)
TopInteger(text, i) ==
    SubSeq(text, TopIntegerStart(text, i), TopIntegerEnd(text, i) - 1)
TopOccursAt(text, i) ==
    /\ WordBoundary(text, i)
    /\ KeywordTopAt(text, i)
    /\ TopIntegerStart(text, i) > i + 3
    /\ TopIntegerEnd(text, i) > TopIntegerStart(text, i)

\* a word-boundary-delimited "TOP <integer>": the integer also ends at a
\* word boundary
DelimitedTopOccursAt(text, i) ==
    TopOccursAt(text, i) /\ WordBoundary(text, TopIntegerEnd(text, i))

\* the output has LIMIT n in the place of the occurrence at i of the input:
\* it is the translation of what precedes the occurrence, LIMIT n, and the
\* translation of what follows it; and no delimited TOP <integer> is left
LimitInPlaceOf(i) ==
    /\ translated[1] =
         Translate(translation_rules, SubSeq(sqlserver_query, 1, i - 1))
         \o LIMIT \o TopInteger(sqlserver_query, i)
         \o Translate(translation_rules,
                      From(sqlserver_query, TopIntegerEnd(sqlserver_query, i)))
    /\ \A k \in 1..Len(translated[1]) : ~DelimitedTopOccursAt(translated[1], k)

\* C7 (as claimed): for every occurrence in the input of the keyword TOP, in
\* any letter case and delimited by a word boundary, followed by whitespace
\* and an integer n, the output has LIMIT n in its place and no
\* word-boundary-delimited TOP <integer> is left in the output.
C7_TopBecomesLimit ==
    tphase = "translated" =>
        \A i \in 1..Len(sqlserver_query) :
            TopOccursAt(sqlserver_query, i) => LimitInPlaceOf(i)

\* C7 (amended): the same for every occurrence whose integer n ends at a word
\* boundary, that is, is not directly followed by a letter, a digit or an
\* underscore.
C7_DelimitedTopBecomesLimit ==
    tphase = "translated" =>
        \A i \in 1..Len(sqlserver_query) :
            DelimitedTopOccursAt(sqlserver_query, i) => LimitInPlaceOf(i)

\* a translated text with a lower-case occurrence that is not at its start
C7_Witness ==
    /\ tphase = "translated"
    /\ \E i \in 2..Len(sqlserver_query) :
         /\ DelimitedTopOccursAt(sqlserver_query, i)
         /\ sqlserver_query[i] = "t"

\* the triggers of the five rules
HasTrigger(text) ==
    \/ \E p \in TriggerPairs : Contains(text, p[1])
    \/ \E i \in 1..Len(text) : DelimitedTopOccursAt(text, i)

\* C8: translate is idempotent: translating the result of translate returns
\* it unchanged; and a text with none of the five triggers is returned
\* unchanged.
C8_TranslateIdempotent ==
    /\ tphase = "retranslated" => translated[1] = sqlserver_query
    /\ (tphase = "translated" /\ ~HasTrigger(sqlserver_query)) =>
           translated[1] = sqlserver_query

\* a result that holds replacements of two rules has been translated again
C8_Witness ==
    /\ tphase = "retranslated"
    /\ Contains(sqlserver_query, LIMIT)
    /\ Contains(sqlserver_query, CURRENT_TIMESTAMP)

\* the five rules applied one after another, each to the text the rule
\* before it produced
FiveRulesInOrder(text) ==
    LET afterGetdate == Replace(text, GETDATE, CURRENT_TIMESTAMP)
        afterGetutcdate == Replace(afterGetdate, GETUTCDATE, CURRENT_TIMESTAMP)
        afterLen == Replace(afterGetutcdate, LEN, LENGTH)
        afterIsnull == Replace(afterLen, ISNULL, IFNULL)
    IN SubTop(afterIsnull)

\* C20: what translate returns is the result of the five rules applied in
\* the order GETDATE(), GETUTCDATE(), LEN(, ISNULL(, TOP n, each replacing
\* every non-overlapping occurrence from left to right; it is a function of
\* the input text alone; and the rule table is the initial one whatever
\* calls of translate have been made.
C20_FiveRulesInOrder ==
    /\ translation_rules = InitialTranslationRules
    /\ tphase # "input" => translated[1] = FiveRulesInOrder(sqlserver_query)

\* a translated text that holds triggers of the first and of the last rule
C20_Witness ==
    /\ tphase = "translated"
    /\ Contains(sqlserver_query, GETDATE)
    /\ \E i \in 1..Len(sqlserver_query) : DelimitedTopOccursAt(sqlserver_query, i)
    /\ translated[1] # sqlserver_query

(***************************************************************************)
(* Properties of the comparator.                                           *)
(***************************************************************************)
\* C9: whenever the SQL Server batch or the Snowflake batch is empty (one of
\* them or both), compare_results raises ValidationError and returns no
\* report.
C9_EmptyBatchRaises ==
    (comparison # None /\ (sqlserver_results = <<>> \/ snowflake_results = <<>>))
    => /\ comparison[1].raised = Some("ValidationError")
       /\ comparison[1].report = None

\* compare_results was called with one empty and one non-empty batch
C9_Witness ==
    /\ comparison # None
    /\ sqlserver_results # <<>>
    /\ snowflake_results = <<>>

\* the records of a batch with status "success" and a timing that is not None
SuccessfulRecords(batch) ==
    {k \in 1..Len(batch) :
        /\ "status" \in DOMAIN batch[k]
        /\ batch[k].status = "success"
        /\ Get(batch[k], "execution_time_ms") # None}

RECURSIVE SumOver(_, _)
SumOver(batch, ks) ==
    IF ks = {} THEN 0
    ELSE LET k == CHOOSE x \in ks : TRUE
         IN batch[k].execution_time_ms[1] + SumOver(batch, ks \ {k})

\* avg is the arithmetic mean of the successful records of the batch, and
\* None exactly when there is none
IsMeanOfSuccessful(avg, batch) ==
    LET ks == SuccessfulRecords(batch) IN
    /\ (avg = None) <=> (ks = {})
    /\ avg # None =>
          avg[1] = FloatDiv[FloatOfInt[SumOver(batch, ks)],
                            FloatOfInt[Cardinality(ks)]]

\* C10 (as claimed): for non-empty batches (their timings are integers >= 0),
\* each mean compare_results uses is the arithmetic mean of execution_time_ms
\* over exactly the records with status "success" and a timing that is not
\* None, and is None exactly when the batch has no such record.
C10_MeanOfSuccessfulRecords ==
    (comparison # None /\ comparison[1].raised = None) =>
        /\ IsMeanOfSuccessful(comparison[1].sqlserver_avg, sqlserver_results)
        /\ IsMeanOfSuccessful(comparison[1].snowflake_avg, snowflake_results)

Abs(n) == IF n < 0 THEN 0 - n ELSE n

\* the winner by the claim, for means sqlserver / sqlserver_n and
\* snowflake / snowflake_n with sqlserver > 0: "Tie" when the difference is
\* below 1% of the SQL Server mean, else the platform with the lower mean
WinnerByMeans(sqlserver, sqlserver_n, snowflake, snowflake_n) ==
    IF 100 * Abs(snowflake * sqlserver_n - sqlserver * snowflake_n)
           < sqlserver * snowflake_n
    THEN "Tie"
    ELSE IF snowflake * sqlserver_n < sqlserver * snowflake_n THEN "Snowflake"
    ELSE "SQL Server"

\* C11 (as claimed): when both batch means exist, performance_winner is "Tie"
\* if |mean_snowflake - mean_sqlserver| / mean_sqlserver * 100 < 1.0, else
\* "Snowflake" if the Snowflake mean is lower and "SQL Server" if the
\* SQL Server mean is lower: a platform wins exactly when its mean is lower by
\* at least 1% of the SQL Server mean.
C11_WinnerByOnePercent ==
    LET ss == SuccessfulRecords(sqlserver_results)
        sf == SuccessfulRecords(snowflake_results)
    IN (/\ comparison # None
        /\ comparison[1].raised = None
        /\ ss # {} /\ sf # {}
        /\ SumOver(sqlserver_results, ss) > 0)
       => comparison[1].report[1].performance_winner =
              Some(WinnerByMeans(SumOver(sqlserver_results, ss), Cardinality(ss),
                                 SumOver(snowflake_results, sf), Cardinality(sf)))

\* C12: for two non-empty batches the report's sqlserver_row_count and
\* snowflake_row_count are the row_count of the first record of each batch
\* (None when that record has none), and row_count_match is true exactly when
\* the two are equal, whatever the later records are.
C12_RowCountsOfFirstRecords ==
    (comparison # None /\ comparison[1].raised = None) =>
        LET report == comparison[1].report[1] IN
        /\ report.sqlserver_row_count = Get(sqlserver_results[1], "row_count")
        /\ report.snowflake_row_count = Get(snowflake_results[1], "row_count")
        /\ report.row_count_match
             = (Get(sqlserver_results[1], "row_count")
                  = Get(snowflake_results[1], "row_count"))

\* a report on batches whose first records disagree on row_count while their
\* last records agree
C12_Witness ==
    /\ comparison # None
    /\ Len(sqlserver_results) = 2
    /\ Len(snowflake_results) = 2
    /\ Get(sqlserver_results[1], "row_count") # Get(snowflake_results[1], "row_count")
    /\ Get(sqlserver_results[2], "row_count") = Get(snowflake_results[2], "row_count")
    /\ comparison[1].report[1].row_count_match = FALSE

\* the smallest and the largest timing of the records ks of a batch
MinOver(batch, ks) ==
    CHOOSE t \in {batch[k].execution_time_ms[1] : k \in ks} :
        \A k \in ks : t <= batch[k].execution_time_ms[1]
MaxOver(batch, ks) ==
    CHOOSE t \in {batch[k].execution_time_ms[1] : k \in ks} :
        \A k \in ks : t >= batch[k].execution_time_ms[1]

\* C13 (as claimed): calculate_statistics returns min, max, mean and count
\* over all records with status "success" and a timing that is not None
\* (timings are integers >= 0), and the empty aggregate exactly when there is
\* no such record.
C13_StatisticsOfSuccessfulRecords ==
    statistics # None =>
        LET ks == SuccessfulRecords(stat_results)
            stats == statistics[1]
        IN /\ (stats = EmptyDict) <=> (ks = {})
           /\ ks # {} =>
                 /\ stats.count = Cardinality(ks)
                 /\ stats.min = MinOver(stat_results, ks)
                 /\ stats.max = MaxOver(stat_results, ks)
                 /\ stats.mean = FloatDiv[FloatOfInt[SumOver(stat_results, ks)],
                                         FloatOfInt[Cardinality(ks)]]

\* C21 (as claimed): in a report, the difference, the percent difference
\* and the winner are all None when a batch has no mean; when both batches
\* have a mean, the difference and the percent difference are not None and
\* are mean_snowflake - mean_sqlserver in whole ms and that difference as a
\* percentage of mean_sqlserver to two decimals, also for equal means.
C21_DifferencesOfMeans ==
    (comparison # None /\ comparison[1].raised = None) =>
        LET sqlserver_avg == comparison[1].sqlserver_avg
            snowflake_avg == comparison[1].snowflake_avg
            report == comparison[1].report[1]
        IN /\ (sqlserver_avg = None \/ snowflake_avg = None) =>
                  /\ report.time_difference_ms = None
                  /\ report.time_difference_percent = None
                  /\ report.performance_winner = None
           /\ (sqlserver_avg # None /\ snowflake_avg # None) =>
                  LET difference == FloatSub[snowflake_avg[1], sqlserver_avg[1]]
                  IN /\ report.time_difference_ms = Some(FloatInt[difference])
                     /\ report.time_difference_percent =
                            Some(FloatRound2[
                                FloatTimes[FloatDiv[difference, sqlserver_avg[1]],
                                           100]])

\* the sum of the timings of a batch of successful runs
TimingSum(batch) == SumOver(batch, 1..Len(batch))

\* v is TimingSum(batch) / Len(batch) rounded to the nearest integer
IsNearestToMean(v, batch) ==
    v # None /\ 2 * Abs(v[1] * Len(batch) - TimingSum(batch)) <= Len(batch)

\* v is TimingSum(batch) / Len(batch) with its fraction cut off
IsTruncatedMean(v, batch) ==
    v # None /\ v[1] = TimingSum(batch) \div Len(batch)

\* C22 (as claimed): the two means of a report on batches of successful
\* integer timings are the exact arithmetic means rounded to the nearest
\* integer.
C22_MeansRoundedToNearest ==
    (comparison # None /\ comparison[1].raised = None) =>
        LET report == comparison[1].report[1]
        IN /\ IsNearestToMean(report.sqlserver_avg_time_ms, sqlserver_results)
           /\ IsNearestToMean(report.snowflake_avg_time_ms, snowflake_results)

\* C22 (amended): the two means of a report on batches of successful
\* positive integer timings are the exact arithmetic means truncated to an
\* integer, that is, rounded down.
C22_MeansTruncated ==
    (comparison # None /\ comparison[1].raised = None) =>
        LET report == comparison[1].report[1]
        IN /\ IsTruncatedMean(report.sqlserver_avg_time_ms, sqlserver_results)
           /\ IsTruncatedMean(report.snowflake_avg_time_ms, snowflake_results)

\* a report on a batch whose mean has a fraction above one half
C22_Witness ==
    /\ comparison # None
    /\ comparison[1].raised = None
    /\ Len(sqlserver_results) = 3
    /\ TimingSum(sqlserver_results) % 3 = 2
    /\ comparison[1].report[1].sqlserver_avg_time_ms =
           Some(TimingSum(sqlserver_results) \div 3)

\* the timing at place p (counted from 1) of the batch's timings in
\* ascending order: fewer than p timings are below it, at least p are not
\* above it
TimingAtPlace(batch, p) ==
    CHOOSE m \in {batch[k].execution_time_ms[1] : k \in 1..Len(batch)} :
        /\ Cardinality({k \in 1..Len(batch) :
                           batch[k].execution_time_ms[1] < m}) < p
        /\ Cardinality({k \in 1..Len(batch) :
                           batch[k].execution_time_ms[1] <= m}) >= p

\* C23 (as claimed): the median over n >= 1 successful timings is the middle
\* element of the ascending timings when n is odd and the lower of the two
\* middle elements when n is even.
C23_MedianIsLowerMiddle ==
    (statistics # None /\ stat_results # <<>>) =>
        statistics[1].median =
            TimingAtPlace(stat_results, (Len(stat_results) + 1) \div 2)

\* C23 (amended): the median is the middle element when n is odd and the
\* upper of the two middle elements when n is even.
C23_MedianIsUpperMiddle ==
    (statistics # None /\ stat_results # <<>>) =>
        statistics[1].median =
            TimingAtPlace(stat_results, Len(stat_results) \div 2 + 1)

\* the median of two timings given in descending order
C23_Witness ==
    /\ statistics # None
    /\ Len(stat_results) = 2
    /\ stat_results[1].execution_time_ms[1] > stat_results[2].execution_time_ms[1]
    /\ statistics[1].median = stat_results[1].execution_time_ms[1]

\* the fields of a report and of an aggregate
ReportFields ==
    {"sqlserver_avg_time_ms", "snowflake_avg_time_ms", "time_difference_ms",
     "time_difference_percent", "row_count_match", "sqlserver_row_count",
     "snowflake_row_count", "performance_winner"}
AggregateFields == {"min", "max", "mean", "median", "count"}

\* C29: on non-empty batches of results of execute_parallel (successes, error
\* results of calls that threw, error results of timeouts, in any mix),
\* compare_results raises nothing and returns a report, and
\* calculate_statistics returns an aggregate: the empty one or one with all
\* its fields.
C29_AcceptsParallelResults ==
    /\ (comparison # None /\ sqlserver_results # <<>> /\ snowflake_results # <<>>)
           => /\ comparison[1].raised = None
              /\ comparison[1].report # None
              /\ DOMAIN comparison[1].report[1] = ReportFields
    /\ statistics # None =>
           \/ statistics[1] = EmptyDict
           \/ DOMAIN statistics[1] = AggregateFields

\* a report on a batch that begins with a timeout result against a batch
\* with a thrown error, and the aggregate of the former
C29_Witness ==
    /\ comparison # None
    /\ comparison[1].report # None
    /\ statistics # None
    /\ Len(sqlserver_results) = 2
    /\ sqlserver_results[1] = ParallelErrorResult(QueryInfo(1, SQLServer), TimeoutError)
    /\ stat_results = sqlserver_results
    /\ \E k \in 1..Len(snowflake_results) :
           /\ snowflake_results[k].status = "error"
           /\ "row_count" \in DOMAIN snowflake_results[k]

\* C30: the fields of a report agree with one another.  When the winner is
\* "Snowflake" the reported time_difference_ms is negative, when it is
\* "SQL Server" it is positive, and a reported time_difference_ms is the
\* reported snowflake_avg_time_ms minus the reported sqlserver_avg_time_ms.
C30_ReportFieldsAgree ==
    (comparison # None /\ comparison[1].raised = None) =>
        LET report == comparison[1].report[1]
        IN /\ report.performance_winner = Some("Snowflake") =>
                  /\ report.time_difference_ms # None
                  /\ report.time_difference_ms[1] < 0
           /\ report.performance_winner = Some("SQL Server") =>
                  /\ report.time_difference_ms # None
                  /\ report.time_difference_ms[1] > 0
           /\ report.time_difference_ms # None =>
                  /\ report.snowflake_avg_time_ms # None
                  /\ report.sqlserver_avg_time_ms # None
                  /\ report.time_difference_ms[1] =
                         report.snowflake_avg_time_ms[1]
                             - report.sqlserver_avg_time_ms[1]

C15_DisconnectIdempotent ==
    /\ \A h \in DOMAIN driver.closes : driver.closes[h] <= 1
    /\ call.op = "disconnect" =>
           /\ call.raised = None
           /\ wrapper.connection = None
           /\ driver.closes =
                  IF call.held = None THEN call.closes
                  ELSE [call.closes EXCEPT ![call.held[1]] = @ + 1]
    /\ (call.op = "disconnect" /\ call.previous = "disconnect") =>
           /\ call.held = None
           /\ driver.closes = call.closes

\* disconnect called twice in a row on a wrapper that held a handle
C15_Witness ==
    /\ call.op = "disconnect"
    /\ call.previous = "disconnect"
    /\ wrapper.platform = Snowflake
    /\ \E h \in DOMAIN driver.closes : driver.closes[h] = 1

\* C16: a connect in which the driver raises raises a
\* DatabaseConnectionError whose cause is what the driver raised, and
\* connect raises nothing else.
C16_ConnectFailureWrapped ==
    call.op \in {"connect", "enter"} =>
        /\ call.driver_error # None =>
               /\ call.raised # None
               /\ call.raised[1].type = "DatabaseConnectionError"
               /\ call.raised[1].cause = call.driver_error[1]
        /\ call.raised # None =>
               /\ call.raised[1].type = "DatabaseConnectionError"
               /\ call.driver_error # None

\* a connect of the Snowflake wrapper that the driver refused
C16_Witness ==
    /\ call.op = "connect"
    /\ call.driver_error # None
    /\ call.raised # None
    /\ wrapper.platform = Snowflake

\* a credential is supplied when the caller passed one
Supplied(v) == v # None

\* the keys of a connection string
PartKeys(parts) == {parts[i].key : i \in DOMAIN parts}

\* the arguments show one authentication mode, credentials when both is
\* TRUE and the integrated one otherwise
OneAuthenticationMode(w, arguments, both) ==
    IF w.platform = SQLServer
    THEN IF both
         THEN /\ {"UID", "PWD"} \subseteq PartKeys(arguments)
              /\ "Trusted_Connection" \notin PartKeys(arguments)
         ELSE /\ \E i \in DOMAIN arguments :
                     arguments[i] = Part("Trusted_Connection", "yes")
              /\ PartKeys(arguments) \cap {"UID", "PWD"} = {}
    ELSE IF both
         THEN {"user", "password"} \subseteq DOMAIN arguments
         ELSE DOMAIN arguments \cap {"user", "password"} = {}

\* C17: what connect hands to the driver carries the credentials exactly
\* when both username and password were supplied; otherwise the SQL Server
\* string has Trusted_Connection=yes and neither UID nor PWD, and the
\* Snowflake parameters have neither user nor password.
C17_CredentialsWhenBothSupplied ==
    call.op \in {"connect", "enter"} =>
        OneAuthenticationMode(wrapper, driver.arguments[1],
                              Supplied(wrapper.username)
                                  /\ Supplied(wrapper.password))

\* C17, amended: the credentials are carried exactly when both username
\* and password were supplied and neither is the empty string.
C17_CredentialsWhenBothNonEmpty ==
    call.op \in {"connect", "enter"} =>
        OneAuthenticationMode(wrapper, driver.arguments[1],
                              /\ Supplied(wrapper.username)
                              /\ wrapper.username # Some("")
                              /\ Supplied(wrapper.password)
                              /\ wrapper.password # Some(""))

\* a connect with a username and an empty password, which falls back to
\* Trusted_Connection=yes
C17_Witness ==
    /\ call.op = "connect"
    /\ wrapper.platform = SQLServer
    /\ wrapper.username = Some("user")
    /\ wrapper.password = Some("")
    /\ \E i \in DOMAIN driver.arguments[1] :
           driver.arguments[1][i] = Part("Trusted_Connection", "yes")

\* C24: whatever calls of connect, disconnect and the executions have been
\* made, every handle the wrapper opened and has not closed is the one held
\* in its connection field, so that at most one is live.
C24_AtMostOneLiveHandle ==
    \A h \in DOMAIN driver.closes :
        driver.closes[h] = 0 => wrapper.connection = Some(h)

(***************************************************************************)
(* Properties of the schema manager.                                       *)
(***************************************************************************)
\* C28: the manager connects lazily and once.  A method called with no
\* connection held calls connect; a method called with a connection held
\* does not; and as long as no connect has been refused, connect has been
\* called exactly once however many calls have been made.
C28_ConnectsLazilyOnce ==
    /\ manager.calls = 0 => manager.connects = 0
    /\ manager.last.op # "none" =>
           (manager.last.connected <=> manager.last.held = None)
    /\ (manager.calls >= 1 /\ manager.refused = 0) =>
           /\ manager.connects = 1
           /\ Len(driver.closes) = 1
           /\ manager.conn = Some(1)

\* three calls over one connect, the last of them on the connection held
C28_Witness ==
    /\ manager.calls = 3
    /\ manager.refused = 0
    /\ manager.connects = 1
    /\ manager.last.op = "get_table_info"
    /\ manager.last.held # None
    /\ manager.last.returned # None

====
